---------------------------- MODULE Spec2Model ----------------------------
(***************************************************************************)
(* A model of the Jira client of src/Jira-api-example/JiraApi.py (class    *)
(* JiraAPI) and of its caller fetch_jira in src/Jira-api-example/main.py   *)
(* (specification Spec), and of download_report of                         *)
(* src/QRadar-API-example/main.py with the RestApiClient methods it calls  *)
(* (specification QSpec).  They are two programs: each specification runs  *)
(* one and leaves the other where it starts.                               *)
(*                                                                         *)
(* Text is modelled as a sequence of code points and bytes as a sequence   *)
(* of numbers in 0..255.  An HTTP exchange is one step whose outcome (a    *)
(* status code, or an exception raised by the call) is chosen by the       *)
(* environment.                                                            *)
(***************************************************************************)
EXTENDS Integers, Sequences, FiniteSets, TLC

(***************************************************************************)
(* Bounds of the model.                                                    *)
(***************************************************************************)
MaxAttempts == 2
MaxPages == 3
MaxPolls == 3

(***************************************************************************)
(* Text and bytes.                                                         *)
(***************************************************************************)
Colon == <<58>>
BasicSpace == <<66, 97, 115, 105, 99, 32>>
BasicColonSpace == <<66, 97, 115, 105, 99, 58, 32>>

\* str.encode(): UTF-8 encoding of one code point.
Utf8EncodeChar(c) ==
    IF c < 128 THEN <<c>>
    ELSE IF c < 2048 THEN <<192 + (c \div 64), 128 + (c % 64)>>
    ELSE IF c < 65536
         THEN <<224 + (c \div 4096), 128 + ((c \div 64) % 64), 128 + (c % 64)>>
    ELSE <<240 + (c \div 262144), 128 + ((c \div 4096) % 64),
           128 + ((c \div 64) % 64), 128 + (c % 64)>>

RECURSIVE Utf8Encode(_)
Utf8Encode(text) ==
    IF text = <<>> THEN <<>>
    ELSE Utf8EncodeChar(Head(text)) \o Utf8Encode(Tail(text))

\* bytes.decode(): strict UTF-8 decoding; ok = FALSE is UnicodeDecodeError.
Utf8Cont(b) == b \in 128..191

Utf8SeqLen(b) ==
    IF b < 128 THEN 1
    ELSE IF b \in 194..223 THEN 2
    ELSE IF b \in 224..239 THEN 3
    ELSE IF b \in 240..244 THEN 4
    ELSE 0

Utf8SecondOk(lead, b) ==
    IF lead = 224 THEN b \in 160..191
    ELSE IF lead = 237 THEN b \in 128..159
    ELSE IF lead = 240 THEN b \in 144..191
    ELSE IF lead = 244 THEN b \in 128..143
    ELSE Utf8Cont(b)

RECURSIVE Utf8DecodeFrom(_, _, _)
Utf8DecodeFrom(bytes, i, text) ==
    IF i > Len(bytes) THEN [ok |-> TRUE, text |-> text]
    ELSE LET lead == bytes[i]
             n == Utf8SeqLen(lead)
         IN  IF n = 0 \/ i + n - 1 > Len(bytes)
             THEN [ok |-> FALSE, text |-> <<>>]
             ELSE IF n = 1
             THEN Utf8DecodeFrom(bytes, i + 1, Append(text, lead))
             ELSE IF ~Utf8SecondOk(lead, bytes[i + 1])
                     \/ \E k \in 2..(n - 1) : ~Utf8Cont(bytes[i + k])
             THEN [ok |-> FALSE, text |-> <<>>]
             ELSE IF n = 2
             THEN Utf8DecodeFrom(bytes, i + 2,
                      Append(text, (lead - 192) * 64 + (bytes[i + 1] - 128)))
             ELSE IF n = 3
             THEN Utf8DecodeFrom(bytes, i + 3,
                      Append(text, (lead - 224) * 4096
                                   + (bytes[i + 1] - 128) * 64
                                   + (bytes[i + 2] - 128)))
             ELSE Utf8DecodeFrom(bytes, i + 4,
                      Append(text, (lead - 240) * 262144
                                   + (bytes[i + 1] - 128) * 4096
                                   + (bytes[i + 2] - 128) * 64
                                   + (bytes[i + 3] - 128)))

Utf8Decode(bytes) == Utf8DecodeFrom(bytes, 1, <<>>)

\* The value of a character in the base64 alphabet, 64 for any other.
B64Val(c) ==
    IF c \in 65..90 THEN c - 65
    ELSE IF c \in 97..122 THEN c - 71
    ELSE IF c \in 48..57 THEN c + 4
    ELSE IF c = 43 THEN 62
    ELSE IF c = 47 THEN 63
    ELSE 64

\* base64.b64decode(s) with validate=False: characters outside the alphabet
\* are skipped, a sufficient run of '=' ends the input, and a final group
\* that is not complete is binascii.Error (ok = FALSE).
RECURSIVE A2bBase64(_, _, _, _, _, _)
A2bBase64(data, i, quad, left, pads, out) ==
    IF i > Len(data)
    THEN [ok |-> quad = 0, bytes |-> IF quad = 0 THEN out ELSE <<>>]
    ELSE LET c == data[i]
             v == B64Val(c)
         IN  IF c = 61
             THEN IF quad >= 2 /\ quad + pads + 1 >= 4
                  THEN [ok |-> TRUE, bytes |-> out]
                  ELSE A2bBase64(data, i + 1, quad, left,
                                 IF quad >= 2 THEN pads + 1 ELSE pads, out)
             ELSE IF v = 64
             THEN A2bBase64(data, i + 1, quad, left, pads, out)
             ELSE IF quad = 0
             THEN A2bBase64(data, i + 1, 1, v, 0, out)
             ELSE IF quad = 1
             THEN A2bBase64(data, i + 1, 2, v % 16, 0,
                            Append(out, left * 4 + (v \div 16)))
             ELSE IF quad = 2
             THEN A2bBase64(data, i + 1, 3, v % 4, 0,
                            Append(out, left * 16 + (v \div 4)))
             ELSE A2bBase64(data, i + 1, 0, 0, 0, Append(out, left * 64 + v))

B64Decode(data) == A2bBase64(data, 1, 0, 0, 0, <<>>)

(***************************************************************************)
(* The inputs the model draws from.                                        *)
(***************************************************************************)
\* "" ; "QUJD" (base64 of "ABC") ; "bob" (not a whole base64 group) ;
\* "abcd" (base64 of bytes that are not UTF-8).
Usernames == {<<>>, <<81, 85, 74, 68>>, <<98, 111, 98>>, <<97, 98, 99, 100>>}
Passwords == {<<>>, <<81, 85, 74, 68>>}

\* jql: None, "" or a query.
JqlNone == [given |-> FALSE, text |-> <<>>]
Jqls == {JqlNone, [given |-> TRUE, text |-> <<>>],
         [given |-> TRUE, text |-> <<113>>]}

Callers == {"authenticate", "initialize", "select", "fetch_jira"}

\* What one HTTP exchange can give: a response with a status, an
\* aiohttp.ClientError, or any other exception raised by the call.
Statuses == {200, 204, 304, 401, 404, 503}
Response(s) == [kind |-> "response", status |-> s]
ClientError == [kind |-> "ClientError", status |-> 0]
OtherError == [kind |-> "OtherError", status |-> 0]
NoOutcome == [kind |-> "none", status |-> 0]
Outcomes == {Response(s) : s \in Statuses} \cup {ClientError, OtherError}

\* What a page request can give; fetch tells status 200 from everything else.
PageOutcomes == {Response(200), Response(404), Response(503), ClientError}

(***************************************************************************)
(* JiraAPI.__init__                                                        *)
(***************************************************************************)
max_results == 20

\* retry_options: "statuses" and "exceptions".
RetryStatuses == {500, 502, 503, 504}

Retryable(o) ==
    \/ o.kind = "ClientError"
    \/ o.kind = "response" /\ o.status \in RetryStatuses

\* The totals a search response may report; a body may also lack "total".
Totals == {t \in 0..(MaxPages * max_results) : t % max_results \in {0, 5}}
Bodies == {[hasTotal |-> TRUE, total |-> t] : t \in Totals}
            \cup {[hasTotal |-> FALSE, total |-> 0]}
NoBody == [hasTotal |-> FALSE, total |-> 0]

(***************************************************************************)
(* JiraAPI.get_auth_header: raised = TRUE is binascii.Error or             *)
(* UnicodeDecodeError.                                                     *)
(***************************************************************************)
get_auth_header(username, password) ==
    LET user_pass == Utf8Encode(username \o Colon \o password)
        decoded == B64Decode(user_pass)
        text == Utf8Decode(decoded.bytes)
    IN  IF ~decoded.ok \/ ~text.ok
        THEN [raised |-> TRUE, value |-> <<>>]
        ELSE [raised |-> FALSE, value |-> text.text]

\* The Authorization header JiraAPI.request sets, and the one JiraAPI.fetch sets.
RequestAuthorization(username, password) ==
    BasicColonSpace \o get_auth_header(username, password).value

FetchAuthorization(username, password) ==
    BasicSpace \o get_auth_header(username, password).value

(***************************************************************************)
(* Decisions of the handlers.                                              *)
(***************************************************************************)
\* authenticate: "if not self.jira_username or self.jira_password".
AuthGuardRejects(username, password) == username = <<>> \/ password # <<>>

\* authenticate: "if 200 <= response.status < 300".
AuthDecision(status) == 200 <= status /\ status < 300

\* handle_response: raise_for_status() raises for a status of 400 and more,
\* and the handler then calls sys.exit(1).
HandleResponseExits(status) == status >= 400

\* initialize: "if not await self.authenticate(): sys.exit(...)".
InitializeOnlyLogs(authenticated) == FALSE

InitializeExits(authenticated) == ~authenticated

\* select: "if jql is None or jql == ''".
JqlMissingNoneOnly(q) == ~q.given

JqlMissing(q) == ~q.given \/ q.text = <<>>

\* data.get("total", 0)
Issues(body) == IF body.hasTotal THEN body.total ELSE 0

\* range(start, stop, step) for step > 0, as a sequence.
PyRangeInclusive(start, stop, step) ==
    LET n == IF start <= stop THEN ((stop - start) \div step) + 1 ELSE 0
    IN  [k \in 1..n |-> start + (k - 1) * step]

PyRange(start, stop, step) ==
    LET n == IF start < stop THEN ((stop - start - 1) \div step) + 1 ELSE 0
    IN  [k \in 1..n |-> start + (k - 1) * step]

\* What a page's request gives fetch's caller: the page's JSON on status 200,
\* [] on any other status and on any exception; fetch never raises.
PageJson(start) == [json |-> TRUE, startAt |-> start]
EmptyList == [json |-> FALSE, startAt |-> 0]

FetchResultUncaught(o, start) ==
    IF o.kind = "response" /\ o.status = 200
    THEN [raised |-> FALSE, value |-> PageJson(start)]
    ELSE [raised |-> o.kind # "response", value |-> EmptyList]

FetchResult(o, start) ==
    IF o.kind = "response" /\ o.status = 200
    THEN [raised |-> FALSE, value |-> PageJson(start)]
    ELSE [raised |-> FALSE, value |-> EmptyList]

\* The tasks of select: one fetch per offset of range(0, issues, max_results).
Tasks(issues) ==
    LET offsets == PyRange(0, issues, max_results)
    IN  [k \in DOMAIN offsets |->
            [start |-> offsets[k], state |-> "created", tries |-> 0,
             outcome |-> NoOutcome, raised |-> FALSE, value |-> EmptyList]]

\* asyncio.gather(*tasks) schedules every task at once: a created task may
\* start whatever the state of the others.
FetchMayStart(ps, k) == ps[k].state = "created"

\* asyncio.gather(*tasks): resumes its caller when every task is done, or as
\* soon as one has raised; its value is the tasks' values in the tasks' order.
AllDone(ps) == \A k \in DOMAIN ps : ps[k].state = "done"
SomeRaised(ps) == \E k \in DOMAIN ps : ps[k].state = "done" /\ ps[k].raised

GatherResumesOnFirst(ps) == \E k \in DOMAIN ps : ps[k].state = "done"

GatherResumes(ps) == AllDone(ps) \/ SomeRaised(ps)

\* The tasks that are done, in the order they completed.
VARIABLE finished

\* The values in the order the tasks completed.
GatheredAsCompleted(ps) ==
    [k \in DOMAIN ps |-> IF k \in DOMAIN finished
                         THEN ps[finished[k]].value
                         ELSE EmptyList]

NotEmptyList(v) == v # EmptyList
GatheredFlattened(ps) ==
    SelectSeq([k \in DOMAIN ps |-> ps[k].value], NotEmptyList)

Gathered(ps) == [k \in DOMAIN ps |-> ps[k].value]

\* sys.exit("Authentication failed. ...") ends the process with status 1;
\* sys.exit(1) in handle_response and in select with status 1.
AuthFailedExitStatus == 1
ErrorExitStatus == 1

(***************************************************************************)
(* State.                                                                  *)
(***************************************************************************)
VARIABLES
    jira_username,  \* self.jira_username
    jira_password,  \* self.jira_password
    attempts,       \* self.attempts, the retry client's number of tries
    caller,         \* which entry point the program calls
    jql,            \* the query given to select
    pc,             \* where the calling coroutine is
    authResult,     \* what authenticate returned: "none", "true", "false"
    initialized,    \* whether initialize has returned to its caller
    exitStatus,     \* the status the process exited with (pc = "exited")
    raised,         \* the exception that reached the caller (pc = "raised")
    probeSession,   \* the session of authenticate: "none", "open", "closed"
    selectSession,  \* the session of select: "none", "open", "closed"
    probeTries,     \* requests sent for the probe
    searchTries,    \* requests sent for the initial search
    probeResp,      \* the status of the response given to authenticate, 0 if none
    searchResp,     \* the status of the response given to select, 0 if none
    body,           \* the JSON of the initial search's response
    wire,           \* the requests sent: kind, params and Authorization header
    pages,          \* the fetch tasks of select, in the order of the offsets
    results         \* select's local variable "results" and its return value

\* download_report and the RestApiClient calls it makes.
VARIABLES
    qpc,              \* where download_report is
    status,           \* its local "status", "unset" before create_search
    search_id,        \* its local "search_id", "unset" before create_search
    createCalls,      \* calls of create_search
    checkCalls,       \* calls of check_status
    saveSearchCalls,  \* calls of save_search
    saveToFileCalls,  \* calls of save_to_file
    polledIds,        \* the search ids given to check_status
    savedIds,         \* the search ids given to save_search and save_to_file
    seenCompleted,    \* whether a status of "COMPLETED" was returned
    fileWritten       \* whether save_to_file wrote the report

qradar == <<qpc, status, search_id, createCalls, checkCalls, saveSearchCalls,
            saveToFileCalls, polledIds, savedIds, seenCompleted, fileWritten>>

DownloadReportStart ==
    /\ qpc = "start"
    /\ status = "unset"
    /\ search_id = "unset"
    /\ createCalls = 0
    /\ checkCalls = 0
    /\ saveSearchCalls = 0
    /\ saveToFileCalls = 0
    /\ polledIds = {}
    /\ savedIds = {}
    /\ seenCompleted = FALSE
    /\ fileWritten = FALSE

config == <<jira_username, jira_password, attempts, caller, jql>>
authVars == <<probeSession, probeTries, probeResp, authResult, initialized>>
selectVars == <<selectSession, searchTries, searchResp, body, pages, results>>
jira == <<config, pc, exitStatus, raised, authVars, selectVars, wire, finished>>
vars == <<jira, qradar>>

Unassigned == [assigned |-> FALSE, value |-> <<>>]

Init ==
    /\ jira_username \in Usernames
    /\ jira_password \in Passwords
    /\ attempts \in 1..MaxAttempts
    /\ caller \in Callers
    /\ jql \in IF caller \in {"select", "fetch_jira"} THEN Jqls ELSE {JqlNone}
    /\ pc = "idle"
    /\ authResult = "none"
    /\ initialized = FALSE
    /\ exitStatus = 0
    /\ raised = "none"
    /\ probeSession = "none"
    /\ selectSession = "none"
    /\ probeTries = 0
    /\ searchTries = 0
    /\ probeResp = 0
    /\ searchResp = 0
    /\ body = NoBody
    /\ wire = {}
    /\ pages = <<>>
    /\ finished = <<>>
    /\ results = Unassigned
    /\ DownloadReportStart

\* The request of JiraAPI.request as sent, and the one of JiraAPI.fetch.
RequestSent(kind, session) ==
    [kind |-> kind, params |-> <<>>, session |-> session, retried |-> TRUE,
     authorization |-> RequestAuthorization(jira_username, jira_password)]

FetchSent(start) ==
    [kind |-> "page", params |-> <<start>>, session |-> "select",
     retried |-> FALSE,
     authorization |-> FetchAuthorization(jira_username, jira_password)]

\* The retry client sends the request again when the outcome is one of
\* retry_options and fewer than "attempts" tries were made.
RetriesAgain(o, tries) == Retryable(o) /\ tries < attempts

(***************************************************************************)
(* authenticate returns b to its caller: to the program, or to initialize, *)
(* which exits the process on FALSE and returns on TRUE.                   *)
(***************************************************************************)
AuthenticateReturns(b) ==
    /\ authResult' = IF b THEN "true" ELSE "false"
    /\ IF caller = "authenticate"
       THEN pc' = "done" /\ UNCHANGED <<exitStatus, initialized>>
       ELSE IF InitializeExits(b)
       THEN /\ pc' = "exited"
            /\ exitStatus' = AuthFailedExitStatus
            /\ UNCHANGED initialized
       ELSE /\ pc' = IF caller = "initialize" THEN "done" ELSE "initialized"
            /\ initialized' = TRUE
            /\ UNCHANGED exitStatus

\* authenticate up to its first request: the guard, the session, and the
\* header computed by request() before anything is sent.
Authenticate ==
    /\ pc = "idle"
    /\ caller \in {"authenticate", "initialize", "fetch_jira"}
    /\ IF AuthGuardRejects(jira_username, jira_password)
       THEN /\ AuthenticateReturns(FALSE)
            /\ UNCHANGED probeSession
       ELSE IF get_auth_header(jira_username, jira_password).raised
       THEN /\ AuthenticateReturns(FALSE)
            /\ probeSession' = "closed"
       ELSE /\ pc' = "auth_probe"
            /\ probeSession' = "open"
            /\ UNCHANGED <<authResult, exitStatus, initialized>>
    /\ UNCHANGED <<qradar, finished, config, raised, probeTries, probeResp,
                   selectVars, wire>>

\* One try of the probe request by the retry client, and what authenticate
\* does with the outcome when the retry client gives it back.
ProbeAttempt ==
    /\ pc = "auth_probe"
    /\ \E o \in Outcomes :
        /\ probeTries' = probeTries + 1
        /\ wire' = wire \cup {RequestSent("probe", "authenticate")}
        /\ IF RetriesAgain(o, probeTries + 1)
           THEN UNCHANGED <<pc, exitStatus, probeSession, probeResp, authResult,
                            initialized>>
           ELSE /\ probeSession' = "closed"
                /\ IF o.kind # "response"
                   THEN /\ AuthenticateReturns(FALSE)
                        /\ UNCHANGED probeResp
                   ELSE /\ probeResp' = o.status
                        /\ IF HandleResponseExits(o.status)
                           THEN /\ pc' = "exited"
                                /\ exitStatus' = ErrorExitStatus
                                /\ UNCHANGED <<authResult, initialized>>
                           ELSE AuthenticateReturns(AuthDecision(o.status))
    /\ UNCHANGED <<qradar, finished, config, raised, selectVars>>

(***************************************************************************)
(* select up to its first request.                                         *)
(***************************************************************************)
SelectCalled ==
    \/ caller = "select" /\ pc = "idle"
    \/ caller = "fetch_jira" /\ pc = "initialized"

Select ==
    /\ SelectCalled
    /\ IF JqlMissing(jql)
       THEN /\ pc' = "exited"
            /\ exitStatus' = ErrorExitStatus
            /\ UNCHANGED <<raised, selectSession>>
       ELSE IF get_auth_header(jira_username, jira_password).raised
       THEN /\ pc' = "raised"
            /\ raised' = "ValueError"
            /\ selectSession' = "closed"
            /\ UNCHANGED exitStatus
       ELSE /\ pc' = "select_initial"
            /\ selectSession' = "open"
            /\ UNCHANGED <<raised, exitStatus>>
    /\ UNCHANGED <<qradar, finished, config, authVars, searchTries, searchResp,
                   body, pages, results, wire>>

\* One try of the initial search request by the retry client, and what
\* select does with the outcome: on status 200 it reads the total and
\* creates the fetch tasks; on another status below 400 it returns
\* "results", which was never assigned.
SearchAttempt ==
    /\ pc = "select_initial"
    /\ \E o \in Outcomes, b \in Bodies :
        /\ searchTries' = searchTries + 1
        /\ wire' = wire \cup {RequestSent("search", "select")}
        /\ IF RetriesAgain(o, searchTries + 1)
           THEN UNCHANGED <<pc, exitStatus, raised, selectSession, searchResp,
                            body, pages>>
           ELSE IF o.kind # "response"
           THEN /\ pc' = "raised"
                /\ raised' = o.kind
                /\ selectSession' = "closed"
                /\ UNCHANGED <<exitStatus, searchResp, body, pages>>
           ELSE /\ searchResp' = o.status
                /\ IF HandleResponseExits(o.status)
                   THEN /\ pc' = "exited"
                        /\ exitStatus' = ErrorExitStatus
                        /\ selectSession' = "closed"
                        /\ UNCHANGED <<raised, body, pages>>
                   ELSE IF o.status = 200
                   THEN /\ body' = b
                        /\ pages' = Tasks(Issues(b))
                        /\ pc' = "select_gather"
                        /\ UNCHANGED <<exitStatus, raised, selectSession>>
                   ELSE /\ pc' = "raised"
                        /\ raised' = "UnboundLocalError"
                        /\ selectSession' = "closed"
                        /\ UNCHANGED <<exitStatus, body, pages>>
    /\ UNCHANGED <<qradar, finished, config, authVars, results>>

(***************************************************************************)
(* The fetch tasks, run by the event loop while select awaits gather.      *)
(***************************************************************************)
\* A task starts: fetch sends its one request on the session.
FetchStart ==
    /\ pc = "select_gather"
    /\ \E k \in DOMAIN pages :
        /\ FetchMayStart(pages, k)
        /\ pages' = [pages EXCEPT ![k].state = "inflight",
                                  ![k].tries = @ + 1]
        /\ wire' = wire \cup {FetchSent(pages[k].start)}
    /\ UNCHANGED <<qradar, finished, config, pc, exitStatus, raised, authVars,
                   selectSession, searchTries, searchResp, body, results>>

\* A task's request ends and fetch returns.
FetchComplete ==
    /\ pc = "select_gather"
    /\ \E k \in DOMAIN pages, o \in PageOutcomes :
        /\ pages[k].state = "inflight"
        /\ finished' = Append(finished, k)
        /\ LET r == FetchResult(o, pages[k].start)
           IN  pages' = [pages EXCEPT ![k].state = "done",
                                      ![k].outcome = o,
                                      ![k].raised = r.raised,
                                      ![k].value = r.value]
    /\ UNCHANGED <<qradar, config, pc, exitStatus, raised, authVars,
                   selectSession, searchTries, searchResp, body, results, wire>>

\* gather resumes select, which leaves its session and returns the results.
GatherJoin ==
    /\ pc = "select_gather"
    /\ GatherResumes(pages)
    /\ selectSession' = "closed"
    /\ IF SomeRaised(pages)
       THEN /\ pc' = "raised"
            /\ raised' = "FetchError"
            /\ UNCHANGED results
       ELSE /\ pc' = "select_returned"
            /\ results' = [assigned |-> TRUE, value |-> Gathered(pages)]
            /\ UNCHANGED raised
    /\ UNCHANGED <<qradar, finished, config, exitStatus, authVars, searchTries,
                   searchResp, body, pages, wire>>

Next ==
    \/ Authenticate
    \/ ProbeAttempt
    \/ Select
    \/ SearchAttempt
    \/ FetchStart
    \/ FetchComplete
    \/ GatherJoin

Spec == Init /\ [][Next]_vars

(***************************************************************************)
(* download_report (src/QRadar-API-example/main.py) and the RestApiClient  *)
(* methods it calls.  call_api gives a response, or None when the request  *)
(* raised; a method that reads r.status_code of None raises, and so does   *)
(* download_report when it unpacks the None a method returns after a       *)
(* status it does not accept.                                              *)
(***************************************************************************)
SearchStatuses == {"WAIT", "EXECUTE", "COMPLETED", "CANCELED", "ERROR"}
SearchIds == {"s1", "s2"}

Answer(code) == [answered |-> TRUE, status_code |-> code]
NoAnswer == [answered |-> FALSE, status_code |-> 0]
ApiAnswers == {Answer(c) : c \in {200, 201, 206, 500}} \cup {NoAnswer}

\* create_search returns its tuple on status 201 only.
CreateSearchReturns(r) == r.answered /\ r.status_code = 201

\* check_status returns its tuple on status 200 or 206 only.
CheckStatusReturns(r) == r.answered /\ r.status_code \in {200, 206}

\* save_search and save_to_file return whatever the status of the response.
SaveSearchReturns(r) == r.answered
SaveToFileReturns(r) == r.answered
SaveToFileWrites(r) == r.answered /\ r.status_code = 200

\* while status != "COMPLETED"
LoopContinues(s) == s # "COMPLETED"

CreateSearch ==
    /\ qpc = "start"
    /\ \E r \in ApiAnswers, s \in SearchStatuses, id \in SearchIds :
        /\ createCalls' = createCalls + 1
        /\ IF CreateSearchReturns(r)
           THEN /\ status' = s
                /\ search_id' = id
                /\ seenCompleted' = (s = "COMPLETED")
                /\ qpc' = "loop"
           ELSE /\ qpc' = "crashed"
                /\ UNCHANGED <<status, search_id, seenCompleted>>
    /\ UNCHANGED <<jira, checkCalls, saveSearchCalls, saveToFileCalls,
                   polledIds, savedIds, fileWritten>>

CheckStatus ==
    /\ qpc = "loop"
    /\ LoopContinues(status)
    /\ checkCalls < MaxPolls
    /\ \E r \in ApiAnswers, s \in SearchStatuses :
        /\ checkCalls' = checkCalls + 1
        /\ polledIds' = polledIds \cup {search_id}
        /\ IF CheckStatusReturns(r)
           THEN /\ status' = s
                /\ seenCompleted' = (seenCompleted \/ s = "COMPLETED")
                /\ qpc' = "sleep"
           ELSE /\ qpc' = "crashed"
                /\ UNCHANGED <<status, seenCompleted>>
    /\ UNCHANGED <<jira, search_id, createCalls, saveSearchCalls,
                   saveToFileCalls, savedIds, fileWritten>>

\* time.sleep(5 * 60) returns and the loop tests its condition again.
Sleep ==
    /\ qpc = "sleep"
    /\ qpc' = "loop"
    /\ UNCHANGED <<jira, status, search_id, createCalls, checkCalls,
                   saveSearchCalls, saveToFileCalls, polledIds, savedIds,
                   seenCompleted, fileWritten>>

\* The loop ends and save_search is called.
SaveSearch ==
    /\ qpc = "loop"
    /\ ~LoopContinues(status)
    /\ \E r \in ApiAnswers :
        /\ saveSearchCalls' = saveSearchCalls + 1
        /\ savedIds' = savedIds \cup {search_id}
        /\ qpc' = IF SaveSearchReturns(r) THEN "save_to_file" ELSE "crashed"
    /\ UNCHANGED <<jira, status, search_id, createCalls, checkCalls,
                   saveToFileCalls, polledIds, seenCompleted, fileWritten>>

SaveToFile ==
    /\ qpc = "save_to_file"
    /\ \E r \in ApiAnswers :
        /\ saveToFileCalls' = saveToFileCalls + 1
        /\ savedIds' = savedIds \cup {search_id}
        /\ qpc' = IF SaveToFileReturns(r) THEN "done" ELSE "crashed"
        /\ fileWritten' = SaveToFileWrites(r)
    /\ UNCHANGED <<jira, status, search_id, createCalls, checkCalls,
                   saveSearchCalls, polledIds, seenCompleted>>

\* The Jira client is not run: one client, nothing called.
QInit ==
    /\ jira_username = <<>>
    /\ jira_password = <<>>
    /\ attempts = 1
    /\ caller = "select"
    /\ jql = JqlNone
    /\ pc = "idle"
    /\ authResult = "none"
    /\ initialized = FALSE
    /\ exitStatus = 0
    /\ raised = "none"
    /\ probeSession = "none"
    /\ selectSession = "none"
    /\ probeTries = 0
    /\ searchTries = 0
    /\ probeResp = 0
    /\ searchResp = 0
    /\ body = NoBody
    /\ wire = {}
    /\ pages = <<>>
    /\ finished = <<>>
    /\ results = Unassigned
    /\ DownloadReportStart

QNext ==
    \/ CreateSearch
    \/ CheckStatus
    \/ Sleep
    \/ SaveSearch
    \/ SaveToFile

QSpec == QInit /\ [][QNext]_vars

(***************************************************************************)
(* Where the program is.                                                   *)
(***************************************************************************)
AuthenticateCalled == caller \in {"authenticate", "initialize", "fetch_jira"}
AuthenticateEnded == AuthenticateCalled /\ pc \notin {"idle", "auth_probe"}
InitializeCalled == caller \in {"initialize", "fetch_jira"}
SelectEntered ==
    \/ caller = "select" /\ pc # "idle"
    \/ caller = "fetch_jira" /\ initialized /\ pc # "initialized"
SelectRequests == {w \in wire : w.kind \in {"search", "page"}}
PageRequests == {w \in wire : w.kind = "page"}

(***************************************************************************)
(* C1.  authenticate() returns true if and only if the probe's status is   *)
(* in [200,300): whenever the probe was answered, authenticate has         *)
(* returned, with true exactly for a status from 200 to 299 (so false for  *)
(* 401), and a probe that ended in a transport error gives false.          *)
(***************************************************************************)
C1_AuthenticateIffProbe2xx ==
    AuthenticateEnded =>
        /\ probeResp # 0 =>
              /\ authResult \in {"true", "false"}
              /\ authResult = "true" <=> probeResp \in 200..299
        /\ (probeTries > 0 /\ probeResp = 0) => authResult = "false"

(***************************************************************************)
(* C2.  authenticate() never raises and never terminates the process: for  *)
(* every probe outcome the call ends by returning a boolean to its caller. *)
(***************************************************************************)
C2_AuthenticateAlwaysReturns ==
    (caller = "authenticate" /\ pc # "idle" /\ pc # "auth_probe") =>
        /\ pc = "done"
        /\ exitStatus = 0
        /\ raised = "none"

(***************************************************************************)
(* C3.  Initialization fails closed: initialize() has returned only if     *)
(* authenticate() returned true; when the username is empty or the         *)
(* credentials are rejected, the process has exited with a non-zero status *)
(* once authenticate ended, and select opens no session and sends no       *)
(* request.                                                                *)
(***************************************************************************)
AuthenticationFailed ==
    \/ jira_username = <<>>
    \/ authResult = "false"
    \/ probeResp # 0 /\ ~(probeResp \in 200..299)

C3_InitializeFailsClosed ==
    InitializeCalled =>
        /\ initialized => authResult = "true"
        /\ (AuthenticationFailed /\ AuthenticateEnded) =>
              /\ pc = "exited"
              /\ exitStatus # 0
        /\ AuthenticationFailed =>
              /\ ~initialized
              /\ selectSession = "none"
              /\ searchTries = 0
              /\ SelectRequests = {}
              /\ pages = <<>>

C3_Witness ==
    /\ caller = "fetch_jira"
    /\ Len(jql.text) > 0
    /\ probeResp = 401
    /\ pc = "exited"
    /\ exitStatus = 1

(***************************************************************************)
(* C4.  select() with an empty or missing query exits the process with a   *)
(* non-zero status before it opens a session and before any request is     *)
(* sent.                                                                   *)
(***************************************************************************)
QueryEmptyOrMissing == jql = JqlNone \/ Len(jql.text) = 0

C4_EmptyQueryFailsFast ==
    (SelectEntered /\ QueryEmptyOrMissing) =>
        /\ pc = "exited"
        /\ exitStatus # 0
        /\ selectSession = "none"
        /\ searchTries = 0
        /\ SelectRequests = {}
        /\ pages = <<>>
        /\ caller = "select" => (wire = {} /\ probeSession = "none")

C4_Witness ==
    /\ caller = "select"
    /\ jql = [given |-> TRUE, text |-> <<>>]
    /\ pc = "exited"
    /\ exitStatus = 1

(***************************************************************************)
(* C5.  The startAt offsets for which select() sends page requests are     *)
(* exactly 0, p, 2p, ... strictly below the reported total, each offset    *)
(* requested exactly once; with a total of 0 or no total in the response   *)
(* no page request is sent.                                                *)
(***************************************************************************)
ReportedTotal == IF body.hasTotal THEN body.total ELSE 0
ExpectedOffsets ==
    {n \in 0..ReportedTotal : n % max_results = 0 /\ n < ReportedTotal}
SentOffsets == {w.params[1] : w \in PageRequests}

C5_PageOffsetsAreTheRange ==
    /\ SentOffsets \subseteq ExpectedOffsets
    /\ SentOffsets = {pages[k].start : k \in {j \in DOMAIN pages : pages[j].tries > 0}}
    /\ \A j, k \in DOMAIN pages :
          /\ pages[k].tries <= 1
          /\ j # k => pages[j].start # pages[k].start
    /\ pc = "select_returned" =>
          /\ SentOffsets = ExpectedOffsets
          /\ \A k \in DOMAIN pages : pages[k].tries = 1
    /\ ReportedTotal = 0 => PageRequests = {}

C5_Witness ==
    /\ pc = "select_returned"
    /\ body = [hasTotal |-> TRUE, total |-> 45]
    /\ SentOffsets = {0, 20, 40}

(***************************************************************************)
(* C6.  select() returns a list with one entry per page offset, that is    *)
(* ceil(total / page_size) entries, the entry of an offset being that      *)
(* page's JSON or the empty list: the pages are not merged into one list.  *)
(***************************************************************************)
C6_OneEntryPerPage ==
    pc = "select_returned" =>
        /\ results.assigned
        /\ Len(results.value) = (ReportedTotal + max_results - 1) \div max_results
        /\ \A k \in 1..Len(results.value) :
              results.value[k] \in {PageJson((k - 1) * max_results), EmptyList}

C6_Witness ==
    /\ pc = "select_returned"
    /\ ReportedTotal = 45
    /\ Len(results.value) = 3
    /\ results.value[1] = PageJson(0)
    /\ results.value[2] = EmptyList
    /\ results.value[3] = PageJson(40)

(***************************************************************************)
(* C7.  Per-page failure isolation: a page request that fails (a status    *)
(* other than 200, or an exception) contributes an empty list, every other *)
(* page contributes its data, and select() neither raises nor ends the     *)
(* process once the initial search was answered with 200: it returns when  *)
(* all pages are done.                                                     *)
(***************************************************************************)
PageContribution(k) ==
    IF pages[k].outcome = Response(200)
    THEN PageJson(pages[k].start)
    ELSE EmptyList

C7_PageFailuresAreIsolated ==
    /\ \A k \in DOMAIN pages :
          pages[k].state = "done" =>
              /\ ~pages[k].raised
              /\ pages[k].value = PageContribution(k)
    /\ searchResp = 200 =>
          /\ pc \in {"select_gather", "select_returned"}
          /\ raised = "none"
          /\ exitStatus = 0
    /\ (pc = "select_gather" /\ \A k \in DOMAIN pages : pages[k].state = "done")
          => ENABLED GatherJoin
    /\ pc = "select_returned" =>
          /\ DOMAIN results.value = DOMAIN pages
          /\ \A k \in DOMAIN pages : results.value[k] = PageContribution(k)

C7_Witness ==
    /\ pc = "select_returned"
    /\ Len(pages) = 3
    /\ pages[1].outcome = Response(503)
    /\ pages[2].outcome = ClientError
    /\ pages[3].outcome = Response(200)
    /\ results.value = <<EmptyList, EmptyList, PageJson(40)>>

(***************************************************************************)
(* C8.  Every outbound request (the probe, the initial search and each     *)
(* page fetch) is retried on 500/502/503/504 or a transport exception, up  *)
(* to "attempts" tries: a request whose last outcome was still one of      *)
(* these was tried "attempts" times, and so was a page that kept answering *)
(* 503 before it was reported as empty.                                    *)
(***************************************************************************)
C8_EveryRequestIsRetried ==
    /\ probeResp \in RetryStatuses => probeTries = attempts
    /\ searchResp \in RetryStatuses => searchTries = attempts
    /\ \A k \in DOMAIN pages :
          (pages[k].state = "done" /\ Retryable(pages[k].outcome)) =>
              /\ pages[k].tries = attempts
              /\ pages[k].value = EmptyList

(***************************************************************************)
(* C9.  Fan-out/fan-in: the page requests of a select() call exist only    *)
(* after the initial request delivered the total; they are sent on the     *)
(* session opened by that call, and starting one never waits for another   *)
(* that is in flight; a page is in flight only while select awaits them    *)
(* with its session open; when select has returned, and when its session   *)
(* is closed, every page is finished.                                      *)
(***************************************************************************)
InFlight == {k \in DOMAIN pages : pages[k].state = "inflight"}

C9_FanOutFanIn ==
    /\ (pages # <<>> \/ PageRequests # {}) => (searchResp = 200 /\ searchTries > 0)
    /\ \A w \in PageRequests : w.session = "select"
    /\ InFlight # {} => (pc = "select_gather" /\ selectSession = "open")
    /\ \A k \in DOMAIN pages :
          (pc = "select_gather" /\ pages[k].state = "created")
              => FetchMayStart(pages, k)
    /\ pc = "select_returned" =>
          /\ \A k \in DOMAIN pages : pages[k].state = "done"
          /\ selectSession = "closed"
    /\ selectSession = "closed" => InFlight = {}

C9_Witness ==
    /\ pc = "select_gather"
    /\ selectSession = "open"
    /\ Len(pages) = 3
    /\ InFlight = {1, 2, 3}

(***************************************************************************)
(* C10.  Every outbound request carries the same Authorization header,     *)
(* "Basic " followed by the base64 encoding of "username:secret", so that  *)
(* base64-decoding the credential gives back username:secret.              *)
(***************************************************************************)
B64Char(v) ==
    IF v < 26 THEN v + 65
    ELSE IF v < 52 THEN v + 71
    ELSE IF v < 62 THEN v - 4
    ELSE IF v = 62 THEN 43
    ELSE 47

RECURSIVE B64Encode(_)
B64Encode(bytes) ==
    IF Len(bytes) = 0 THEN <<>>
    ELSE IF Len(bytes) = 1
    THEN <<B64Char(bytes[1] \div 4), B64Char((bytes[1] % 4) * 16), 61, 61>>
    ELSE IF Len(bytes) = 2
    THEN <<B64Char(bytes[1] \div 4),
           B64Char((bytes[1] % 4) * 16 + (bytes[2] \div 16)),
           B64Char((bytes[2] % 16) * 4), 61>>
    ELSE <<B64Char(bytes[1] \div 4),
           B64Char((bytes[1] % 4) * 16 + (bytes[2] \div 16)),
           B64Char((bytes[2] % 16) * 4 + (bytes[3] \div 64)),
           B64Char(bytes[3] % 64)>>
         \o B64Encode(SubSeq(bytes, 4, Len(bytes)))

UserPass == Utf8Encode(jira_username \o Colon \o jira_password)
Credential(header) == SubSeq(header, Len(BasicSpace) + 1, Len(header))

C10_BasicHeaderIsEncodedUserPass ==
    \A w \in wire :
        /\ Len(w.authorization) >= Len(BasicSpace)
        /\ SubSeq(w.authorization, 1, Len(BasicSpace)) = BasicSpace
        /\ Credential(w.authorization) = B64Encode(UserPass)
        /\ B64Decode(Utf8Encode(Credential(w.authorization)))
              = [ok |-> TRUE, bytes |-> UserPass]
        /\ \A v \in wire : v.authorization = w.authorization

(***************************************************************************)
(* C11.  Authentication requires both username and password: when the      *)
(* username or the password is empty authenticate() returns false without  *)
(* sending any request, and when both are non-empty it sends the probe     *)
(* request and decides on the probe's outcome.                             *)
(***************************************************************************)
ProbeRequests == {w \in wire : w.kind = "probe"}

C11_AuthenticationNeedsBothCredentials ==
    (AuthenticateCalled /\ pc # "idle") =>
        /\ (jira_username = <<>> \/ jira_password = <<>>) =>
              /\ authResult = "false"
              /\ probeTries = 0
              /\ ProbeRequests = {}
              /\ probeSession # "open"
        /\ (jira_username # <<>> /\ jira_password # <<>> /\ AuthenticateEnded) =>
              /\ probeTries > 0
              /\ ProbeRequests # {}

(***************************************************************************)
(* C13.  For a non-empty query, whenever the initial search request comes  *)
(* back without terminating the process, select() returns a list for       *)
(* every response status, also a successful status other than 200: no      *)
(* exception reaches the caller, and what is returned was assigned.        *)
(***************************************************************************)
C13_SelectReturnsAListForEveryStatus ==
    (searchResp # 0 /\ pc # "exited") =>
        /\ raised = "none"
        /\ pc \in {"select_gather", "select_returned"}
        /\ pc = "select_returned" => results.assigned

(***************************************************************************)
(* C12.  Whatever order the concurrent page requests complete in, the i-th *)
(* entry of the list select() returns is the result of the page request    *)
(* with startAt = i * page_size, counting i from 0: ascending offsets, not *)
(* completion order.                                                       *)
(***************************************************************************)
PagesAt(offset) == {j \in DOMAIN pages : pages[j].start = offset}

C12_ResultsInOffsetOrder ==
    pc = "select_returned" =>
        /\ Len(results.value) = Len(pages)
        /\ \A i \in 0..(Len(results.value) - 1) :
              /\ Cardinality(PagesAt(i * max_results)) = 1
              /\ \A j \in PagesAt(i * max_results) :
                    results.value[i + 1] = pages[j].value

C12_Witness ==
    /\ pc = "select_returned"
    /\ finished = <<3, 1, 2>>
    /\ results.value = <<PageJson(0), PageJson(20), PageJson(40)>>

(***************************************************************************)
(* C14.  In download_report the search is created exactly once, its        *)
(* status is polled with the search id create_search returned, save_search *)
(* and then save_to_file are each called at most once and only after a     *)
(* status of "COMPLETED" was returned; and once "COMPLETED" was returned   *)
(* the report is saved: download_report does not end before both were      *)
(* called exactly once.                                                    *)
(***************************************************************************)
DownloadReportOrder ==
    /\ createCalls <= 1
    /\ qpc # "start" => createCalls = 1
    /\ polledIds \subseteq {search_id}
    /\ checkCalls > 0 => search_id \in SearchIds
    /\ savedIds \subseteq {search_id}
    /\ saveSearchCalls <= 1
    /\ saveToFileCalls <= saveSearchCalls
    /\ (saveSearchCalls > 0 \/ fileWritten) => seenCompleted
    /\ ~seenCompleted => qpc \in {"start", "loop", "sleep", "crashed"}

C14_DownloadReportSavesOnceAfterCompleted ==
    /\ DownloadReportOrder
    /\ (seenCompleted /\ qpc \in {"done", "crashed"}) =>
          /\ saveSearchCalls = 1
          /\ saveToFileCalls = 1

=============================================================================
